---------------------------- MODULE Spec2Model ----------------------------
(***************************************************************************)
(* Model of doi2pdf.py: the Proxy Rewriter (convert_to_hku_proxy), the DOI *)
(* Resolver (doi_to_url), the Page-Load Waiter (_wait_for_page_load), the  *)
(* Batch Processor (process_dois) and the Downloader Facade (class         *)
(* DOI2PDFDownloader).                                                     *)
(*                                                                         *)
(* Strings are sequences of lexical tokens: a token is either one          *)
(* delimiter character (":", "/", "?", "#", ";", "@", ".", "-", " ") or a  *)
(* maximal run of characters that holds no delimiter.  Concatenation is    *)
(* \o, the empty string is <<>>.                                           *)
(*                                                                         *)
(* BatchSpec calls process_dois directly with every proxy selector; Spec   *)
(* drives the Facade.  RewriterSpec, ResolverSpec and WaiterSpec call      *)
(* convert_to_hku_proxy, doi_to_url and _wait_for_page_load on their own;  *)
(* WaiterFairSpec is WaiterSpec with the thread kept running.              *)
(***************************************************************************)
EXTENDS Integers, Sequences, FiniteSets, TLC

VARIABLES
    _queue,        \* DOI2PDFDownloader._queue: sequence of DOI strings
    proxy_method,  \* DOI2PDFDownloader.proxy_method
    _driver,       \* DOI2PDFDownloader._driver: index into sessions
    sessions,      \* every browser session created so far (webdriver.Chrome())
    added,         \* history: arguments of add_dois since the last run, in order
    frame,         \* the activation of process_dois that is running, or Idle
    lastCall,      \* observation of the last call that returned to the caller
    pc,            \* where control is: in the caller, or inside process_dois
    history        \* history: the pauses made and the runs that navigated, so far

vars == <<_queue, proxy_method, _driver, sessions, added, frame, lastCall, pc,
         history>>

----------------------------------------------------------------------------
(* Bounds *)

MaxDois == 3
MaxQueue == 2
MaxSessions == 2
MaxCloses == 2
MaxRuns == 2
MaxTimeout == 4
MaxScriptTime == 1

(* Program constants *)

AUTH_PAUSE == 20
PDF_PAUSE == 3
DEFAULT_WAIT == 10

\* time.sleep(0.5): the clock of the Page-Load Waiter counts half seconds
POLL_INTERVAL == 1

----------------------------------------------------------------------------
(* Strings *)

\* F applied to the value of v; v is evaluated once, however often F uses it
With(v, F(_)) == CHOOSE r \in {F(x) : x \in {v}} : TRUE

Range(s) == {s[i] : i \in 1..Len(s)}

\* s[a:] of Python, a counted from 0
From(s, a) == IF a >= Len(s) THEN <<>> ELSE SubSeq(s, a + 1, Len(s))

\* s[:b] of Python
Upto(s, b) == IF b <= 0 THEN <<>> ELSE SubSeq(s, 1, IF b > Len(s) THEN Len(s) ELSE b)

Min(S) == CHOOSE i \in S : \A j \in S : i <= j
Max(S) == CHOOSE i \in S : \A j \in S : i >= j

\* s.find(c) for a token c of the set cs: least 0-based index, -1 when absent
Find(s, cs) ==
    With({i \in 1..Len(s) : s[i] \in cs},
         LAMBDA hits : IF hits = {} THEN -1 ELSE Min(hits) - 1)

\* s.rfind(c)
RFind(s, cs) ==
    With({i \in 1..Len(s) : s[i] \in cs},
         LAMBDA hits : IF hits = {} THEN -1 ELSE Max(hits) - 1)

\* s.replace(a, b) for one-character a and b
Replace(s, a, b) == [i \in 1..Len(s) |-> IF s[i] = a THEN b ELSE s[i]]

\* s.startswith(w) for a word w holding no delimiter
StartsWith(s, w) == Len(s) > 0 /\ s[1] = w

\* s.partition(c): <<before, after>>, <<s, "">> when c is absent
SplitAt(s, c) ==
    With(Find(s, {c}),
         LAMBDA k : IF k = -1 THEN <<s, <<>>>> ELSE <<Upto(s, k), From(s, k + 1)>>)

Delimiters == {":", "/", "?", "#", ";", "@", ".", "-", " ", "="}

----------------------------------------------------------------------------
(* urllib.parse, as used by convert_to_hku_proxy and doi_to_url *)

uses_netloc == {"", "http", "https", "ftp"}
uses_params == {"", "http", "https", "ftp"}

\* The scheme of a URL is one word token here; scheme_chars also admit
\* "+", "-" and ".", which the modelled URLs do not use in a scheme.
HasScheme(url) ==
    /\ Len(url) >= 2
    /\ url[1] \notin Delimiters
    /\ url[2] = ":"

\* <<scheme, rest>>
split_scheme(url) ==
    IF HasScheme(url) THEN <<url[1], From(url, 2)>> ELSE <<"", url>>

\* <<netloc, rest>>: after "//" the netloc runs to the first of "/", "?", "#"
split_netloc(r) ==
    IF Len(r) >= 2 /\ r[1] = "/" /\ r[2] = "/"
    THEN With(Find(From(r, 2), {"/", "?", "#"}),
              LAMBDA dl : IF dl = -1 THEN <<From(r, 2), <<>>>>
                          ELSE <<Upto(From(r, 2), dl), From(From(r, 2), dl)>>)
    ELSE <<<<>>, r>>

urlsplit(url) ==
    With(split_scheme(url), LAMBDA a :
    With(split_netloc(a[2]), LAMBDA b :
    With(SplitAt(b[2], "#"), LAMBDA c :
    With(SplitAt(c[1], "?"), LAMBDA d :
        [scheme |-> a[1], netloc |-> b[1], path |-> d[1],
         query |-> d[2], fragment |-> c[2]]))))

\* _splitparams: the parameters follow the first ";" of the last path segment
splitparams(path) ==
    With(RFind(path, {"/"}), LAMBDA sl :
    With(IF sl = -1 THEN Find(path, {";"})
         ELSE With(Find(From(path, sl), {";"}),
                   LAMBDA k : IF k = -1 THEN -1 ELSE sl + k),
         LAMBDA i : IF i < 0 THEN <<path, <<>>>>
                    ELSE <<Upto(path, i), From(path, i + 1)>>))

urlparse(url) ==
    With(urlsplit(url), LAMBDA s :
    With(IF s.scheme \in uses_params /\ ";" \in Range(s.path)
         THEN splitparams(s.path) ELSE <<s.path, <<>>>>,
         LAMBDA sp :
        [scheme |-> s.scheme, netloc |-> s.netloc, path |-> sp[1],
         params |-> sp[2], query |-> s.query, fragment |-> s.fragment]))

url_with_netloc(netloc, path) ==
    <<"/", "/">> \o netloc
        \o (IF path # <<>> /\ path[1] # "/" THEN <<"/">> ELSE <<>>)
        \o path

urlunsplit(scheme, netloc, path, query, fragment) ==
    (IF scheme # "" THEN <<scheme, ":">> ELSE <<>>)
    \o (IF netloc # <<>>
           \/ (scheme # "" /\ scheme \in uses_netloc
               /\ ~(Len(path) >= 2 /\ path[1] = "/" /\ path[2] = "/"))
        THEN url_with_netloc(netloc, path)
        ELSE path)
    \o (IF query # <<>> THEN <<"?">> \o query ELSE <<>>)
    \o (IF fragment # <<>> THEN <<"#">> \o fragment ELSE <<>>)

urlunparse(p) ==
    urlunsplit(p.scheme, p.netloc,
               IF p.params # <<>> THEN p.path \o <<";">> \o p.params ELSE p.path,
               p.query, p.fragment)

----------------------------------------------------------------------------
(* Proxy Rewriter *)

HKU_SUFFIX == <<".", "eproxy", ".", "lib", ".", "hku", ".", "hk">>

convert_to_hku_proxy(url) ==
    With(urlparse(url), LAMBDA parsed :
        urlunparse([parsed EXCEPT
                      !.netloc = Replace(parsed.netloc, ".", "-") \o HKU_SUFFIX]))

----------------------------------------------------------------------------
(* DOI Resolver *)

publisher_map ==
    (<<"pubs", ".", "acs", ".", "org">> :> "ACS")
    @@ (<<"sciencedirect", ".", "com">> :> "Elsevier")
    @@ (<<"link", ".", "springer", ".", "com">> :> "Springer")
    @@ (<<"onlinelibrary", ".", "wiley", ".", "com">> :> "Wiley")
    @@ (<<"tandfonline", ".", "com">> :> "Taylor & Francis")
    @@ (<<"cambridge", ".", "org">> :> "Cambridge University Press")
    @@ (<<"nature", ".", "com">> :> "Nature Publishing Group")
    @@ (<<"ieee", ".", "org">> :> "IEEE")
    @@ (<<"royalsocietypublishing", ".", "org">> :> "Royal Society")

\* f"Error resolving DOI {doi}: {e}"
ResolveError(doi, msg) ==
    <<"Error", " ", "resolving", " ", "DOI", " ">> \o doi \o <<":", " ">> \o msg

\* net is what requests.get / raise_for_status do for this lookup:
\*   kind "ok"              a response without error status, final URL net.url
\*   kind "http_error"      raise_for_status raises HTTPError, e.response.url = net.url
\*   kind "http_error_none" HTTPError whose response is None
\*   kind "transport"       any other RequestException
doi_to_url(doi, net) ==
    IF net.kind \in {"http_error_none", "transport"}
    THEN <<ResolveError(doi, net.msg), "Unknown">>
    ELSE With(urlparse(net.url).netloc, LAMBDA domain :
             <<net.url,
               IF domain \in DOMAIN publisher_map
               THEN publisher_map[domain] ELSE "Unknown">>)

----------------------------------------------------------------------------
(* Exceptions and the calls the program makes on its collaborators *)

NoExc == [type |-> "none", msg |-> <<>>]

Raises(x) == x # NoExc

\* str(e)
Str(e) == e.msg

\* A call made on a collaborator, its argument and what the collaborator did:
\* "ok" or "raise", and for the HTTP lookup the outcome net (see doi_to_url)
Ev(call, arg, out) == [call |-> call, arg |-> arg, out |-> out]

Outcome(x) == IF Raises(x) THEN "raise" ELSE "ok"

PDF_CLASS == <<"article__btn__secondary", "-", "-", "pdf">>

\* The proxy selector: None, a string, or a callable (named by val)
NoneSel == [kind |-> "None", val |-> ""]
StrSel(v) == [kind |-> "str", val |-> v]
CallableSel(f) == [kind |-> "callable", val |-> f]

\* What a user-supplied proxy function returns when it does not raise:
\* "prefix" is an EZproxy-style login prefix, "same" returns its argument.
ApplyCallable(f, url) ==
    IF f = "prefix"
    THEN <<"https", ":", "/", "/", "login", ".", "proxy", "/", "login", "?", "url", "=">> \o url
    ELSE url

----------------------------------------------------------------------------
(* Batch Processor.  A block of code evaluates to a record                 *)
(*   [exc, info, first_visit, log]                                         *)
(* exc is the exception leaving the block (NoExc when it ends normally),   *)
(* log the calls it made, in order.  e is what the collaborators do for    *)
(* this DOI: e.net (the HTTP lookup), e.proxy_exc (a callable selector),   *)
(* e.get_exc, e.find_exc, e.click_exc (the browser session).               *)

Blk(exc, info, fv, log) == [exc |-> exc, info |-> info, first_visit |-> fv, log |-> log]

\* Faulty variant of select_proxy: only "hku" selects the HKU rewriter, every
\* other string passes the URL through
select_proxy_strings_pass_through(proxy, url, e) ==
    IF proxy = NoneSel \/ proxy = StrSel("hku")
    THEN [exc |-> NoExc, val |-> convert_to_hku_proxy(url), log |-> <<>>]
    ELSE IF proxy.kind = "callable"
    THEN [exc |-> e.proxy_exc,
          val |-> ApplyCallable(proxy.val, url),
          log |-> <<Ev("proxy", url, Outcome(e.proxy_exc))>>]
    ELSE [exc |-> NoExc, val |-> url, log |-> <<>>]

\* lines 109-118: the proxied URL, or the exception the selector raises
select_proxy(proxy, url, e) ==
    IF proxy = NoneSel \/ proxy = StrSel("hku")
    THEN [exc |-> NoExc, val |-> convert_to_hku_proxy(url), log |-> <<>>]
    ELSE IF proxy = StrSel("none")
    THEN [exc |-> NoExc, val |-> url, log |-> <<>>]
    ELSE IF proxy.kind = "callable"
    THEN [exc |-> e.proxy_exc,
          val |-> ApplyCallable(proxy.val, url),
          log |-> <<Ev("proxy", url, Outcome(e.proxy_exc))>>]
    ELSE [exc |-> NoExc, val |-> convert_to_hku_proxy(url), log |-> <<>>]

\* Faulty variant of acs_try: the action is recorded before the click
acs_try_early_append(info, fv, e) ==
    IF Raises(e.find_exc)
    THEN Blk(e.find_exc, info, fv, <<Ev("find_element", PDF_CLASS, "raise")>>)
    ELSE IF Raises(e.click_exc)
    THEN Blk(e.click_exc,
             [info EXCEPT !.actions = Append(@, "clicked_pdf_button")], fv,
             <<Ev("find_element", PDF_CLASS, "ok"), Ev("click", <<>>, "raise")>>)
    ELSE Blk(NoExc,
             [info EXCEPT !.actions = Append(@, "clicked_pdf_button")]
                 @@ ("status" :> "pdf_clicked"),
             fv,
             <<Ev("find_element", PDF_CLASS, "ok"), Ev("click", <<>>, "ok"),
               Ev("time.sleep", PDF_PAUSE, "ok")>>)

\* lines 144-148: the body of the inner try
acs_try(info, fv, e) ==
    IF Raises(e.find_exc)
    THEN Blk(e.find_exc, info, fv, <<Ev("find_element", PDF_CLASS, "raise")>>)
    ELSE IF Raises(e.click_exc)
    THEN Blk(e.click_exc, info, fv,
             <<Ev("find_element", PDF_CLASS, "ok"), Ev("click", <<>>, "raise")>>)
    ELSE Blk(NoExc,
             [info EXCEPT !.actions = Append(@, "clicked_pdf_button")]
                 @@ ("status" :> "pdf_clicked"),
             fv,
             <<Ev("find_element", PDF_CLASS, "ok"), Ev("click", <<>>, "ok"),
               Ev("time.sleep", PDF_PAUSE, "ok")>>)

\* Faulty variant of acs_except: the failure is filed as a navigation error
acs_except_as_navigation_error(b) ==
    IF Raises(b.exc)
    THEN Blk(NoExc,
             ("status" :> "navigation_error") @@ ("error" :> Str(b.exc)) @@ b.info,
             b.first_visit, b.log)
    ELSE b

\* lines 149-151: except Exception of the inner try
acs_except(b) ==
    IF Raises(b.exc)
    THEN Blk(NoExc,
             ("status" :> "click_pdf_failed") @@ ("error" :> Str(b.exc)) @@ b.info,
             b.first_visit, b.log)
    ELSE b

\* lines 142-155: the publisher switch
publisher_action(info, publisher, fv, e) ==
    IF publisher = "ACS"
    THEN acs_except(acs_try(info, fv, e))
    ELSE Blk(NoExc, ("status" :> "no_action_for_publisher") @@ info, fv, <<>>)

\* Faulty variant of after_navigation: the first-visit flag is never cleared
after_navigation_keep_flag(fv, wait_time) ==
    IF fv
    THEN [first_visit |-> fv, log |-> <<Ev("time.sleep", AUTH_PAUSE, "ok")>>]
    ELSE [first_visit |-> fv, log |-> <<Ev("_wait_for_page_load", wait_time, "ok")>>]

\* lines 133-139: the pause of the first visit, the Page-Load Waiter afterwards
after_navigation(fv, wait_time) ==
    IF fv
    THEN [first_visit |-> FALSE, log |-> <<Ev("time.sleep", AUTH_PAUSE, "ok")>>]
    ELSE [first_visit |-> fv, log |-> <<Ev("_wait_for_page_load", wait_time, "ok")>>]

\* Faulty variant of nav_try: the first-visit flag is cleared before get
nav_try_flag_cleared_first(info, publisher, proxied, wait_time, fv, e) ==
    IF Raises(e.get_exc)
    THEN Blk(e.get_exc, info, FALSE, <<Ev("driver.get", proxied, "raise")>>)
    ELSE With(after_navigation(fv, wait_time), LAMBDA w :
         With(publisher_action(info, publisher, w.first_visit, e), LAMBDA a :
             Blk(a.exc, a.info, a.first_visit,
                 <<Ev("driver.get", proxied, "ok")>> \o w.log \o a.log)))

\* Faulty variant of nav_try: the publisher switch sits in a finally clause
nav_try_action_in_finally(info, publisher, proxied, wait_time, fv, e) ==
    IF Raises(e.get_exc)
    THEN With(publisher_action(info, publisher, fv, e), LAMBDA a :
             Blk(e.get_exc, a.info, a.first_visit,
                 <<Ev("driver.get", proxied, "raise")>> \o a.log))
    ELSE With(after_navigation(fv, wait_time), LAMBDA w :
         With(publisher_action(info, publisher, w.first_visit, e), LAMBDA a :
             Blk(a.exc, a.info, a.first_visit,
                 <<Ev("driver.get", proxied, "ok")>> \o w.log \o a.log)))

\* lines 130-155: the body of the outer try
nav_try(info, publisher, proxied, wait_time, fv, e) ==
    IF Raises(e.get_exc)
    THEN Blk(e.get_exc, info, fv, <<Ev("driver.get", proxied, "raise")>>)
    ELSE With(after_navigation(fv, wait_time), LAMBDA w :
         With(publisher_action(info, publisher, w.first_visit, e), LAMBDA a :
             Blk(a.exc, a.info, a.first_visit,
                 <<Ev("driver.get", proxied, "ok")>> \o w.log \o a.log)))

\* Faulty variant of nav_except: no handler, the exception propagates
nav_except_absent(b) == b

\* lines 156-158: except Exception of the outer try
nav_except(b) ==
    IF Raises(b.exc)
    THEN Blk(NoExc,
             ("status" :> "navigation_error") @@ ("error" :> Str(b.exc)) @@ b.info,
             b.first_visit, b.log)
    ELSE b

\* Faulty variant of proxy_except: the handler clears the first-visit flag
proxy_except_clears_flag(info, fv, p) ==
    Blk(NoExc,
        info @@ ("status" :> "proxy_error")
             @@ ("error" :> <<"proxy", " ", "function", " ", "error", ":", " ">> \o Str(p.exc))
             @@ ("actions" :> <<>>),
        FALSE, p.log)

\* lines 119-124: except Exception around the proxy selection
proxy_except(info, fv, p) ==
    Blk(NoExc,
        info @@ ("status" :> "proxy_error")
             @@ ("error" :> <<"proxy", " ", "function", " ", "error", ":", " ">> \o Str(p.exc))
             @@ ("actions" :> <<>>),
        fv, p.log)

\* lines 126-158: the DOI is resolved and p.val is its proxied URL
navigate(info0, publisher, p, wait_time, fv, e) ==
    With(nav_except(nav_try(info0 @@ ("proxied_url" :> p.val) @@ ("actions" :> <<>>),
                            publisher, p.val, wait_time, fv, e)),
         LAMBDA b : Blk(b.exc, b.info, b.first_visit, p.log \o b.log))

\* lines 108-158: the DOI is resolved to url
resolved(info0, url, publisher, wait_time, proxy, fv, e) ==
    With(select_proxy(proxy, url, e), LAMBDA p :
        IF Raises(p.exc)
        THEN proxy_except(info0, fv, p)
        ELSE navigate(info0, publisher, p, wait_time, fv, e))

\* Faulty variant of loop_body: no early continue after a failed resolution
loop_body_no_continue(doi, wait_time, proxy, fv, e) ==
    With(doi_to_url(doi, e.net), LAMBDA r :
    With(resolved([doi |-> doi, url |-> r[1], publisher |-> r[2]],
                  r[1], r[2], wait_time, proxy, fv, e),
         LAMBDA b : Blk(b.exc, b.info, b.first_visit,
                        <<Ev("requests.get", doi, e.net)>> \o b.log)))

\* lines 97-158: one iteration of the loop, up to the store into results
loop_body(doi, wait_time, proxy, fv, e) ==
    With(doi_to_url(doi, e.net), LAMBDA r :
    With(IF StartsWith(r[1], "Error")
         THEN Blk(NoExc,
                  [doi |-> doi, url |-> r[1], publisher |-> r[2]]
                      @@ ("status" :> "resolve_failed") @@ ("actions" :> <<>>),
                  fv, <<>>)
         ELSE resolved([doi |-> doi, url |-> r[1], publisher |-> r[2]],
                       r[1], r[2], wait_time, proxy, fv, e),
         LAMBDA b : Blk(b.exc, b.info, b.first_visit,
                        <<Ev("requests.get", doi, e.net)>> \o b.log)))

\* Faulty variant of process_dois_enter: the first-visit flag outlives the
\* call, it is set only as long as no pause was ever made
process_dois_enter_flag_kept(dois, driver_obj, wait_time, proxy) ==
    [dois |-> dois, local_driver |-> driver_obj, wait_time |-> wait_time,
     proxy |-> proxy, i |-> 1, results |-> <<>>,
     first_visit |-> (history.pauses = 0),
     log |-> <<>>, raised |-> NoExc]

\* lines 91-94: the locals of process_dois on entry
process_dois_enter(dois, driver_obj, wait_time, proxy) ==
    [dois |-> dois, local_driver |-> driver_obj, wait_time |-> wait_time,
     proxy |-> proxy, i |-> 1, results |-> <<>>, first_visit |-> TRUE,
     log |-> <<>>, raised |-> NoExc]

\* Faulty variant of process_dois_iter: a record already stored is kept
process_dois_iter_keep_first(fr, e) ==
    With(loop_body(fr.dois[fr.i], fr.wait_time, fr.proxy, fr.first_visit, e),
         LAMBDA b :
            IF Raises(b.exc)
            THEN [fr EXCEPT !.raised = b.exc, !.log = @ \o b.log]
            ELSE [fr EXCEPT !.i = @ + 1,
                            !.results = @ @@ (fr.dois[fr.i] :> b.info),
                            !.first_visit = b.first_visit,
                            !.log = @ \o b.log])

\* lines 96-160: the iteration for dois[fr.i].  An exception that leaves the
\* loop body leaves process_dois (fr.raised); otherwise results[doi] = info.
process_dois_iter(fr, e) ==
    With(loop_body(fr.dois[fr.i], fr.wait_time, fr.proxy, fr.first_visit, e),
         LAMBDA b :
            IF Raises(b.exc)
            THEN [fr EXCEPT !.raised = b.exc, !.log = @ \o b.log]
            ELSE [fr EXCEPT !.i = @ + 1,
                            !.results = (fr.dois[fr.i] :> b.info) @@ @,
                            !.first_visit = b.first_visit,
                            !.log = @ \o b.log])

\* line 96 and line 162: the loop is over, or an exception is propagating
process_dois_done(fr) == Raises(fr.raised) \/ fr.i > Len(fr.dois)

----------------------------------------------------------------------------
(* Page-Load Waiter.  Its activation record holds the clock reading now    *)
(* and the polls made so far, each [at, out, took]: the reading when       *)
(* execute_script was called, what it did ("loading", "complete" or        *)
(* "raise") and how long it took.  Times are counted in half seconds.      *)

ScriptErr == [type |-> "WebDriverException", msg |-> <<"Message", ":", " ", "script">>]

\* line 63
wait_enter(timeout) ==
    [timeout |-> timeout, end |-> 0 + timeout, now |-> 0, polls |-> <<>>,
     returned |-> FALSE, ret |-> FALSE, raised |-> NoExc]

\* lines 66-68: the body of the try
poll_try(w, out, took) ==
    With([w EXCEPT !.polls = Append(@, [at |-> w.now, out |-> out, took |-> took]),
                   !.now = @ + took],
         LAMBDA v :
            IF out = "raise" THEN [v EXCEPT !.raised = ScriptErr]
            ELSE IF out = "complete" THEN [v EXCEPT !.returned = TRUE, !.ret = TRUE]
            ELSE v)

\* Faulty variant of poll_except: no handler, the exception propagates
poll_except_absent(w) == w

\* lines 69-70: except Exception: pass
poll_except(w) == [w EXCEPT !.raised = NoExc]

\* lines 65-71: one turn of the loop
wait_iter(w, out, took) ==
    With(poll_except(poll_try(w, out, took)), LAMBDA v :
        IF Raises(v.raised) \/ v.returned
        THEN v
        ELSE [v EXCEPT !.now = @ + POLL_INTERVAL])

\* line 64: the loop test
wait_more(w) == ~Raises(w.raised) /\ ~w.returned /\ w.now < w.end

----------------------------------------------------------------------------
(* Downloader Facade.  A browser session is [quits, released]: quits is    *)
(* the number of quit() calls made on it, released the number of those     *)
(* that returned normally.  It is live until a quit() returns normally.    *)

NewSession == [quits |-> 0, released |-> 0]

Live(sn) == sn.released = 0

RECURSIVE TotalQuits(_)
TotalQuits(ss) == IF ss = <<>> THEN 0 ELSE ss[1].quits + TotalQuits(Tail(ss))

\* lines 176-190: the fields after construction
facade_init(pm) ==
    [_queue |-> <<>>, proxy_method |-> pm, sessions |-> <<NewSession>>, _driver |-> 1]

\* lines 192-200: pm is the proxy_method argument, NoneSel when not given
setup(cur_pm, cur_sessions, cur_driver, pm) ==
    [proxy_method |-> IF pm # NoneSel THEN pm ELSE cur_pm,
     sessions     |-> Append(cur_sessions, NewSession),
     _driver      |-> Len(cur_sessions) + 1]

\* lines 203-207: a is [kind |-> "str", val |-> doi] or [kind |-> "list", val |-> dois]
add_dois(queue, a) ==
    IF a.kind = "str" THEN Append(queue, a.val) ELSE queue \o a.val

\* Faulty variant of start_download_sync: the queue is not cleared
start_download_sync_keep_queue(queue, fr) ==
    [raised |-> fr.raised, results |-> fr.results, _queue |-> queue]

\* lines 210-212, after process_dois is over: fr is its final activation.
\* The queue is cleared only when process_dois returned.
start_download_sync(queue, fr) ==
    [raised  |-> fr.raised,
     results |-> fr.results,
     _queue  |-> IF Raises(fr.raised) THEN queue ELSE <<>>]

NotImplementedError ==
    [type |-> "NotImplementedError",
     msg  |-> <<"Asynchronous", " ", "start", " ", "is", " ", "not", " ",
                "implemented", " ", "yet", ".">>]

\* Faulty variant of start_download_async: it returns silently
start_download_async_silent == [raised |-> NoExc]

\* lines 214-215
start_download_async == [raised |-> NotImplementedError]

\* lines 219-220: the body of the try; quit_exc is what quit() raises
close_try(cur_sessions, d, quit_exc) ==
    [exc      |-> quit_exc,
     sessions |-> [cur_sessions EXCEPT
                     ![d] = [quits    |-> @.quits + 1,
                             released |-> IF Raises(quit_exc) THEN @.released
                                          ELSE @.released + 1]]]

\* Faulty variant of close_except: no handler, the exception propagates
close_except_absent(b) == b

\* lines 221-222: except Exception: pass
close_except(b) == [b EXCEPT !.exc = NoExc]

\* lines 217-222: a driver object is always truthy
close(cur_sessions, d, quit_exc) ==
    IF d >= 1
    THEN close_except(close_try(cur_sessions, d, quit_exc))
    ELSE [exc |-> NoExc, sessions |-> cur_sessions]

----------------------------------------------------------------------------
(* The inputs and the collaborators' behaviours that are explored *)

D1 == <<"10", ".", "1021", "/", "a">>
D2 == <<"10", ".", "1021", "/", "b">>
DOIs == {D1, D2}

ACS_URL == <<"https", ":", "/", "/", "pubs", ".", "acs", ".", "org", "/", "doi", "/", "a">>
OTHER_URL == <<"https", ":", "/", "/", "example", ".", "com", "/", "x", "?", "id", "=", "1">>

TransportErr == [kind |-> "transport", url |-> <<>>, msg |-> <<"timed", " ", "out">>]
Resolved(u) == [kind |-> "ok", url |-> u, msg |-> <<>>]

WebDriverErr == [type |-> "WebDriverException", msg |-> <<"Message", ":", " ", "failed">>]
ProxyErr == [type |-> "ValueError", msg |-> <<"bad", " ", "url">>]
QuitErr == [type |-> "WebDriverException", msg |-> <<"Message", ":", " ", "gone">>]

E(net, p, g, f, c) ==
    [net |-> net, proxy_exc |-> p, get_exc |-> g, find_exc |-> f, click_exc |-> c]

\* What can happen to one DOI.  Behaviours that differ only in a call the DOI
\* never reaches are listed once.  A session that is not live fails every call.
EnvsFor(urls, callable, live) ==
    {E(TransportErr, NoExc, NoExc, NoExc, NoExc)}
    \cup {E(Resolved(u), NoExc, WebDriverErr, NoExc, NoExc) : u \in urls}
    \cup (IF callable
          THEN {E(Resolved(u), ProxyErr, NoExc, NoExc, NoExc) : u \in urls}
          ELSE {})
    \cup (IF live
          THEN {E(Resolved(u), NoExc, NoExc, NoExc, NoExc) : u \in urls}
               \cup {E(Resolved(u), NoExc, NoExc, WebDriverErr, NoExc) :
                        u \in urls \cap {ACS_URL}}
               \cup {E(Resolved(u), NoExc, NoExc, NoExc, WebDriverErr) :
                        u \in urls \cap {ACS_URL}}
          ELSE {})

SeqsUpTo(S, n) == UNION {[1..k -> S] : k \in 0..n}

Selectors ==
    {NoneSel, StrSel("hku"), StrSel("none"), StrSel("ezproxy"), CallableSel("prefix")}

\* The Facade runs: the session may be released, and a PDF control that is
\* reached is found and clicked.
FacadeEnvs(live) ==
    {e \in EnvsFor({ACS_URL}, FALSE, live) :
        ~Raises(e.find_exc) /\ ~Raises(e.click_exc)}

BatchEnvs(callable) == EnvsFor({ACS_URL, OTHER_URL}, callable, TRUE)

\* process_dois is called with a wait_time that is not the default
BatchWait == DEFAULT_WAIT + 5

Idle == [dois |-> <<>>, local_driver |-> 0, wait_time |-> 0, proxy |-> NoneSel,
         i |-> 1, results |-> <<>>, first_visit |-> TRUE, log |-> <<>>,
         raised |-> NoExc]

Call(op, arg, raised, ret, log) ==
    [op |-> op, arg |-> arg, raised |-> raised, ret |-> ret, log |-> log]

\* The calls of one kind in a log, by position
IdxOf(log, call) == {j \in 1..Len(log) : log[j].call = call}

\* line 131: the navigations, and those that returned normally
Gets(log) == IdxOf(log, "driver.get")
OkGets(log) == {j \in Gets(log) : log[j].out = "ok"}

\* line 135: the pauses of the first visit
Pauses(log) == {j \in IdxOf(log, "time.sleep") : log[j].arg = AUTH_PAUSE}

NoHistory == [pauses |-> 0, nav_runs |-> 0]

\* The history after a step that extends the log of a run from before to after
Noted(h, before, after) ==
    [pauses |-> h.pauses + Cardinality(Pauses(after)) - Cardinality(Pauses(before)),
     nav_runs |-> h.nav_runs
                    + (IF OkGets(before) = {} /\ OkGets(after) # {} THEN 1 ELSE 0)]

\* One iteration of the loop of process_dois, shared by both specifications
Iterate ==
    /\ pc \in {"process_dois", "start_download_sync"}
    /\ ~process_dois_done(frame)
    /\ \E e \in IF pc = "process_dois"
                 THEN BatchEnvs(frame.proxy.kind = "callable")
                 ELSE FacadeEnvs(Live(sessions[frame.local_driver])) :
         frame' = process_dois_iter(frame, e)
    /\ history' = Noted(history, frame.log, frame'.log)
    /\ UNCHANGED <<_queue, proxy_method, _driver, sessions, added, lastCall, pc>>

----------------------------------------------------------------------------
(* BatchSpec: one direct call of process_dois on a live session *)

BatchInit ==
    /\ history = NoHistory

    /\ _queue = <<>>
    /\ proxy_method = StrSel("hku")
    /\ _driver = 1
    /\ sessions = <<NewSession>>
    /\ added = <<>>
    /\ lastCall = Call("none", <<>>, NoExc, <<>>, <<>>)
    /\ \E dois \in SeqsUpTo(DOIs, MaxDois), proxy \in Selectors :
         frame = process_dois_enter(dois, 1, BatchWait, proxy)
    /\ pc = "process_dois"

ProcessDoisReturn ==
    /\ pc = "process_dois"
    /\ process_dois_done(frame)
    /\ lastCall' = Call("process_dois",
                        [dois |-> frame.dois, wait_time |-> frame.wait_time,
                         proxy |-> frame.proxy],
                        frame.raised, frame.results, frame.log)
    /\ frame' = Idle
    /\ pc' = "returned"
    /\ UNCHANGED <<_queue, proxy_method, _driver, sessions, added, history>>

BatchNext == Iterate \/ ProcessDoisReturn

BatchSpec == BatchInit /\ [][BatchNext]_vars

----------------------------------------------------------------------------
(* Spec: the caller of a Facade makes any sequence of calls on it *)

Init ==
    /\ history = NoHistory
    /\ \E pm \in {StrSel("hku"), StrSel("none")} :
         LET f == facade_init(pm)
         IN  /\ _queue = f._queue
             /\ proxy_method = f.proxy_method
             /\ sessions = f.sessions
             /\ _driver = f._driver
    /\ added = <<>>
    /\ frame = Idle
    /\ lastCall = Call("__init__", <<>>, NoExc, <<>>, <<>>)
    /\ pc = "facade"

Setup ==
    /\ pc = "facade"
    /\ Len(sessions) < MaxSessions
    /\ \E pm \in {NoneSel, StrSel("hku"), StrSel("none")} :
         LET f == setup(proxy_method, sessions, _driver, pm)
         IN  /\ proxy_method' = f.proxy_method
             /\ sessions' = f.sessions
             /\ _driver' = f._driver
             /\ lastCall' = Call("setup", pm, NoExc, <<>>, <<>>)
    /\ UNCHANGED <<_queue, added, frame, pc, history>>

AddDois ==
    /\ pc = "facade"
    /\ \E a \in {[kind |-> "str", val |-> d] : d \in DOIs}
                \cup {[kind |-> "list", val |-> l] : l \in SeqsUpTo(DOIs, MaxQueue)} :
         LET n == IF a.kind = "str" THEN 1 ELSE Len(a.val)
         IN  /\ Len(_queue) + n <= MaxQueue
             /\ _queue' = add_dois(_queue, a)
             /\ added' = added \o (IF a.kind = "str" THEN <<a.val>> ELSE a.val)
             /\ lastCall' = Call("add_dois", a, NoExc, <<>>, <<>>)
    /\ UNCHANGED <<proxy_method, _driver, sessions, frame, pc, history>>

\* line 210: start_download_sync calls process_dois without a proxy argument
StartDownloadSync ==
    /\ pc = "facade"
    /\ history.nav_runs < MaxRuns
    /\ frame' = process_dois_enter(_queue, _driver, DEFAULT_WAIT, NoneSel)
    /\ lastCall' = Call("running", <<>>, NoExc, <<>>, <<>>)
    /\ pc' = "start_download_sync"
    /\ UNCHANGED <<_queue, proxy_method, _driver, sessions, added, history>>

StartDownloadSyncReturn ==
    /\ pc = "start_download_sync"
    /\ process_dois_done(frame)
    /\ LET r == start_download_sync(_queue, frame)
       IN  /\ _queue' = r._queue
           /\ lastCall' = Call("start_download_sync",
                               [queue |-> _queue, wait_time |-> frame.wait_time,
                                proxy_method |-> proxy_method, added |-> added],
                               r.raised, r.results, frame.log)
    /\ added' = <<>>
    /\ frame' = Idle
    /\ pc' = "facade"
    /\ UNCHANGED <<proxy_method, _driver, sessions, history>>

StartDownloadAsync ==
    /\ pc = "facade"
    /\ lastCall' = Call("start_download_async", <<>>, start_download_async.raised,
                        <<>>, <<>>)
    /\ UNCHANGED <<_queue, proxy_method, _driver, sessions, added, frame, pc,
                 history>>

Close ==
    /\ pc = "facade"
    /\ TotalQuits(sessions) < MaxCloses
    /\ \E q \in {NoExc, QuitErr} :
         LET r == close(sessions, _driver, q)
         IN  /\ sessions' = r.sessions
             /\ lastCall' = Call("close", q, r.exc, <<>>,
                                 <<Ev("driver.quit", _driver, Outcome(q))>>)
    /\ UNCHANGED <<_queue, proxy_method, _driver, added, frame, pc, history>>

Next ==
    \/ Setup
    \/ AddDois
    \/ StartDownloadSync
    \/ Iterate
    \/ StartDownloadSyncReturn
    \/ StartDownloadAsync
    \/ Close

Spec == Init /\ [][Next]_vars

----------------------------------------------------------------------------
(* RewriterSpec: convert_to_hku_proxy is called once, on any URL built    *)
(* from the parts below                                                    *)

Schemes == {<<"https">>, <<"http">>}
UserInfos == {<<>>, <<"user", "@">>}
Hosts == {<<"pubs", ".", "acs", ".", "org">>, <<"example", ".", "com">>, <<"localhost">>}
Ports == {<<>>, <<":", "8080">>}
Paths == {<<>>, <<"/", "doi", "/", "a">>}
Queries == {<<>>, <<"?">>, <<"?", "id", "=", "1">>}
Fragments == {<<>>, <<"#">>, <<"#", "s1">>}

Urls ==
    {sc \o <<":", "/", "/">> \o ui \o h \o po \o pa \o q \o fr :
        sc \in Schemes, ui \in UserInfos, h \in Hosts, po \in Ports,
        pa \in Paths, q \in Queries, fr \in Fragments}

RewriterInit ==
    /\ history = NoHistory
    /\ _queue = <<>>
    /\ proxy_method = StrSel("hku")
    /\ _driver = 0
    /\ sessions = <<>>
    /\ added = <<>>
    /\ frame = Idle
    /\ \E url \in Urls : lastCall = Call("enter", url, NoExc, <<>>, <<>>)
    /\ pc = "convert_to_hku_proxy"

ConvertToHkuProxy ==
    /\ pc = "convert_to_hku_proxy"
    /\ lastCall' = Call("convert_to_hku_proxy", lastCall.arg, NoExc,
                        convert_to_hku_proxy(lastCall.arg), <<>>)
    /\ pc' = "returned"
    /\ UNCHANGED <<_queue, proxy_method, _driver, sessions, added, frame,
                 history>>

RewriterSpec == RewriterInit /\ [][ConvertToHkuProxy]_vars

----------------------------------------------------------------------------
(* ResolverSpec: doi_to_url is called once, on any DOI and with any       *)
(* outcome of the lookup below                                             *)

\* Final URLs: one on each host of the publisher table, one on an unlisted
\* host, one on a subdomain of a listed host, and URLs whose network
\* location carries a port or user-info
FinalUrls ==
    {<<"https", ":", "/", "/">> \o h \o <<"/", "doi", "/", "a">> :
        h \in DOMAIN publisher_map}
    \cup {OTHER_URL,
          <<"https", ":", "/", "/", "www", ".", "nature", ".", "com", "/", "x">>,
          <<"https", ":", "/", "/", "pubs", ".", "acs", ".", "org", ":", "443", "/", "doi", "/", "a">>,
          <<"https", ":", "/", "/", "example", ".", "com", ":", "8443", "/", "x">>,
          <<"https", ":", "/", "/", "user", "@", "link", ".", "springer", ".", "com", "/", "x">>}

ErrorTexts == {<<"timed", " ", "out">>, <<"connection", " ", "refused">>}

Lookups ==
    {[kind |-> k, url |-> u, msg |-> <<>>] :
        k \in {"ok", "http_error"}, u \in FinalUrls}
    \cup {[kind |-> k, url |-> <<>>, msg |-> t] :
            k \in {"http_error_none", "transport"}, t \in ErrorTexts}

ResolverInit ==
    /\ history = NoHistory
    /\ _queue = <<>>
    /\ proxy_method = StrSel("hku")
    /\ _driver = 0
    /\ sessions = <<>>
    /\ added = <<>>
    /\ frame = Idle
    /\ \E doi \in DOIs, net \in Lookups :
         lastCall = Call("enter", [doi |-> doi, net |-> net], NoExc, <<>>, <<>>)
    /\ pc = "doi_to_url"

DoiToUrl ==
    /\ pc = "doi_to_url"
    /\ lastCall' = Call("doi_to_url", lastCall.arg, NoExc,
                        doi_to_url(lastCall.arg.doi, lastCall.arg.net), <<>>)
    /\ pc' = "returned"
    /\ UNCHANGED <<_queue, proxy_method, _driver, sessions, added, frame,
                 history>>

ResolverSpec == ResolverInit /\ [][DoiToUrl]_vars

----------------------------------------------------------------------------
(* WaiterSpec: _wait_for_page_load is called once, with any timeout up to *)
(* MaxTimeout half seconds; each execute_script does any of the three      *)
(* things and takes up to MaxScriptTime half seconds.  WaiterFairSpec      *)
(* adds that the single thread of the program keeps running.               *)

WaiterInit ==
    /\ history = NoHistory
    /\ _queue = <<>>
    /\ proxy_method = StrSel("hku")
    /\ _driver = 1
    /\ sessions = <<NewSession>>
    /\ added = <<>>
    /\ lastCall = Call("none", <<>>, NoExc, <<>>, <<>>)
    /\ \E timeout \in 0..MaxTimeout : frame = wait_enter(timeout)
    /\ pc = "_wait_for_page_load"

WaitPoll ==
    /\ pc = "_wait_for_page_load"
    /\ wait_more(frame)
    /\ \E out \in {"loading", "complete", "raise"}, took \in 0..MaxScriptTime :
         frame' = wait_iter(frame, out, took)
    /\ UNCHANGED <<_queue, proxy_method, _driver, sessions, added, lastCall, pc,
                 history>>

\* line 68, line 72, or an exception leaving the function
WaitReturn ==
    /\ pc = "_wait_for_page_load"
    /\ ~wait_more(frame)
    /\ lastCall' = Call("_wait_for_page_load",
                        [timeout |-> frame.timeout, end |-> frame.end,
                         now |-> frame.now],
                        frame.raised, frame.ret, frame.polls)
    /\ frame' = Idle
    /\ pc' = "returned"
    /\ UNCHANGED <<_queue, proxy_method, _driver, sessions, added, history>>

WaiterNext == WaitPoll \/ WaitReturn

WaiterSpec == WaiterInit /\ [][WaiterNext]_vars

WaiterFairSpec == WaiterSpec /\ WF_vars(WaiterNext)

----------------------------------------------------------------------------
(* Reading a log of calls *)


IsLookup(ev) == ev.call = "requests.get"

\* The DOIs looked up, in order
LookupDois(log) ==
    LET l == SelectSeq(log, IsLookup) IN [j \in 1..Len(l) |-> l[j].arg]

LookupFailed(ev) ==
    ev.call = "requests.get" /\ ev.out.kind \in {"transport", "http_error_none"}


\* The calls made for the DOI processed last: from its lookup to the end
LastSegment(log) == From(log, Max(IdxOf(log, "requests.get")) - 1)

\* The record stored by the iteration that ended last
LastRecord == frame.results[frame.dois[frame.i - 1]]

AfterIteration == pc = "process_dois" /\ frame.i > 1 /\ ~Raises(frame.raised)

Returned == pc = "returned" /\ lastCall.op = "process_dois"

----------------------------------------------------------------------------
(* Claims, BatchSpec *)

\* C1: whatever the lookups, the proxy function and the browser session do
\* (failed resolution, raising proxy transform, raising navigation, raising
\* element lookup or click), no exception leaves process_dois; when it has
\* returned, every DOI of the input list was looked up, in order, and has a
\* record in the returned mapping.
C1_NoRaiseEveryDoiRecorded ==
    /\ ~Raises(frame.raised)
    /\ Returned =>
         /\ ~Raises(lastCall.raised)
         /\ \A i \in 1..Len(lastCall.arg.dois) :
              lastCall.arg.dois[i] \in DOMAIN lastCall.ret
         /\ LookupDois(lastCall.log) = lastCall.arg.dois

\* C1 witness: the first DOI fails in the proxy function, the second is
\* still processed to the end.
C1_Witness ==
    /\ Returned
    /\ lastCall.arg.dois = <<D1, D2>>
    /\ lastCall.ret[D1].status = "proxy_error"
    /\ lastCall.ret[D2].status = "pdf_clicked"

\* C2: when the lookup of a DOI gives an error marker, its record has status
\* resolve_failed and the lookup is the only call made for that DOI: no
\* proxy function, no driver.get, no pause, no page-load wait, no element
\* lookup.
C2_ResolveFailedNoNavigation ==
    (AfterIteration /\ LookupFailed(LastSegment(frame.log)[1])) =>
        /\ LastRecord.status = "resolve_failed"
        /\ Len(LastSegment(frame.log)) = 1
        /\ "proxied_url" \notin DOMAIN LastRecord
        /\ LastRecord.actions = <<>>

\* C2 witness: a failed lookup, after which the next DOI is navigated.
C2_Witness ==
    /\ pc = "process_dois"
    /\ frame.i = 3
    /\ LookupFailed(frame.log[1])
    /\ frame.log[2].call = "requests.get"
    /\ OkGets(frame.log) # {}

\* C3 as stated: in a batch of 3 DOIs that are all navigated, the 20-second
\* pause occurs exactly once and before the first navigation.
C3_PauseBeforeFirstNavigation ==
    (Returned /\ Len(lastCall.arg.dois) = 3
        /\ Cardinality(OkGets(lastCall.log)) = 3) =>
        /\ Cardinality(Pauses(lastCall.log)) = 1
        /\ \A q \in Pauses(lastCall.log) : q < Min(Gets(lastCall.log))

\* C3 amended: in one call of process_dois the 20-second pause occurs at
\* most once; when some navigation succeeds it occurs exactly once, as the
\* call right after the first successful driver.get, and after no later
\* navigation; when no navigation succeeds there is no pause.
C3_PauseOnceAfterFirstNavigation ==
    Returned =>
        IF OkGets(lastCall.log) = {}
        THEN Pauses(lastCall.log) = {}
        ELSE Pauses(lastCall.log) = {Min(OkGets(lastCall.log)) + 1}

\* C3 witness: a batch of 3 DOIs, all navigated.
C3_Witness ==
    /\ Returned
    /\ Len(lastCall.arg.dois) = 3
    /\ Cardinality(OkGets(lastCall.log)) = 3

\* C4: for a DOI of publisher "ACS" whose navigation succeeded: when the PDF
\* control is found and clicked, the record has status pdf_clicked and actions
\* <<"clicked_pdf_button">>; when finding or clicking it raises, the record
\* has status click_pdf_failed, a non-empty error and no actions.
C4_AcsClickOutcome ==
    (AfterIteration /\ LastRecord.publisher = "ACS"
        /\ OkGets(LastSegment(frame.log)) # {}) =>
        LET seg    == LastSegment(frame.log)
            raised == \E j \in IdxOf(seg, "find_element") \cup IdxOf(seg, "click") :
                         seg[j].out = "raise"
        IN  /\ IdxOf(seg, "find_element") # {}
            /\ ~raised =>
                 /\ IdxOf(seg, "click") # {}
                 /\ LastRecord.status = "pdf_clicked"
                 /\ LastRecord.actions = <<"clicked_pdf_button">>
            /\ raised =>
                 /\ LastRecord.status = "click_pdf_failed"
                 /\ "error" \in DOMAIN LastRecord
                 /\ LastRecord.error # <<>>
                 /\ LastRecord.actions = <<>>

\* C4 witness: one ACS DOI is clicked, for another the control is found and
\* the click raises.
C4_Witness ==
    /\ Returned
    /\ lastCall.arg.dois = <<D1, D2>>
    /\ lastCall.ret[D1].status = "pdf_clicked"
    /\ lastCall.ret[D2].status = "click_pdf_failed"
    /\ \E j \in IdxOf(lastCall.log, "click") : lastCall.log[j].out = "raise"

\* C10 as stated: the keys of the returned mapping are the DOIs of the input
\* list, each record's doi is its key, and there are as many records as DOIs
\* in the list, also when a DOI appears more than once.
C10_OneRecordPerListElement ==
    Returned =>
        /\ DOMAIN lastCall.ret = Range(lastCall.arg.dois)
        /\ \A d \in DOMAIN lastCall.ret : lastCall.ret[d].doi = d
        /\ Cardinality(DOMAIN lastCall.ret) = Len(lastCall.arg.dois)

\* C10 amended: the keys of the returned mapping are the DOIs of the input
\* list, each record's doi is its key, and there are as many records as
\* distinct DOIs in the list; every element of the list is looked up, and the
\* record kept for a DOI is the one of its last occurrence.
C10_OneRecordPerDistinctDoi ==
    /\ Returned =>
         /\ DOMAIN lastCall.ret = Range(lastCall.arg.dois)
         /\ \A d \in DOMAIN lastCall.ret : lastCall.ret[d].doi = d
         /\ Cardinality(DOMAIN lastCall.ret) = Cardinality(Range(lastCall.arg.dois))
         /\ Len(LookupDois(lastCall.log)) = Len(lastCall.arg.dois)
    /\ AfterIteration =>
         /\ DOMAIN frame.results = Range(Upto(frame.dois, frame.i - 1))
         /\ LastRecord.doi = frame.dois[frame.i - 1]
         /\ LastRecord.url = doi_to_url(LastRecord.doi,
                                        LastSegment(frame.log)[1].out)[1]

\* C10 witness: the same DOI twice, resolved differently, one record.
C10_Witness ==
    /\ Returned
    /\ lastCall.arg.dois = <<D1, D1>>
    /\ Cardinality(DOMAIN lastCall.ret) = 1
    /\ lastCall.log[1].out # lastCall.log[Max(IdxOf(lastCall.log, "requests.get"))].out

\* Some call of this kind raised
Failed(log, call) == \E j \in IdxOf(log, call) : log[j].out = "raise"

Statuses ==
    {"resolve_failed", "proxy_error", "pdf_clicked", "click_pdf_failed",
     "no_action_for_publisher", "navigation_error"}

\* C11: the status of every record is one of the six values resolve_failed,
\* proxy_error, pdf_clicked, click_pdf_failed, no_action_for_publisher and
\* navigation_error, and it names the class of the failure: resolve_failed
\* exactly when the lookup failed, proxy_error exactly when the proxy function
\* raised, navigation_error exactly when the navigation raised,
\* click_pdf_failed exactly when finding or clicking the PDF control raised,
\* and pdf_clicked or no_action_for_publisher exactly when no step failed.
C11_StatusNamesFailureClass ==
    AfterIteration =>
        LET seg == LastSegment(frame.log)
            st  == LastRecord.status
        IN  /\ st \in Statuses
            /\ (st = "resolve_failed") <=> LookupFailed(seg[1])
            /\ (st = "proxy_error") <=> Failed(seg, "proxy")
            /\ (st = "navigation_error") <=> Failed(seg, "driver.get")
            /\ (st = "click_pdf_failed") <=>
                   (Failed(seg, "find_element") \/ Failed(seg, "click"))
            /\ (st \in {"pdf_clicked", "no_action_for_publisher"}) <=>
                   /\ ~LookupFailed(seg[1])
                   /\ \A j \in 2..Len(seg) : seg[j].out = "ok"

\* C11 witness: one batch in which a navigation raises and the lookup of
\* the PDF control raises.
C11_Witness ==
    /\ Returned
    /\ Len(lastCall.arg.dois) = 3
    /\ Failed(lastCall.log, "driver.get")
    /\ Failed(lastCall.log, "find_element")
    /\ {lastCall.ret[d].status : d \in DOMAIN lastCall.ret}
           = {"navigation_error", "click_pdf_failed"}

\* C14: when the proxy function raises for a DOI, its record has status
\* proxy_error and the error "proxy function error: " followed by the
\* exception's text, it has no proxied_url, the session is not navigated for
\* that DOI, and the first-visit flag is left as it was: it is still set when
\* no pause has taken place so far.
C14_ProxyErrorKeepsPause ==
    (AfterIteration /\ Failed(LastSegment(frame.log), "proxy")) =>
        /\ LastRecord.status = "proxy_error"
        /\ "error" \in DOMAIN LastRecord
        /\ LastRecord.error =
               <<"proxy", " ", "function", " ", "error", ":", " ">> \o ProxyErr.msg
        /\ "proxied_url" \notin DOMAIN LastRecord
        /\ Gets(LastSegment(frame.log)) = {}
        /\ frame.first_visit = (Pauses(frame.log) = {})

\* C14 witness: the proxy function raises for the first DOI and the pause
\* takes place at the second.
C14_Witness ==
    /\ Returned
    /\ lastCall.arg.dois = <<D1, D2>>
    /\ lastCall.ret[D1].status = "proxy_error"
    /\ \E q \in Pauses(lastCall.log) :
          \E j \in IdxOf(lastCall.log, "proxy") :
              lastCall.log[j].out = "raise" /\ j < q

\* C15: in one call of process_dois a navigation that raises is followed by
\* neither the pause nor the Page-Load Waiter; the first navigation that
\* returns normally is followed at once by the 20-second pause; every later
\* navigation that returns normally is followed at once by the Page-Load
\* Waiter, called with the wait_time of the call; the pause takes place at
\* most once and the waiter is called nowhere else.
C15_PauseTiedToFirstSuccess ==
    Returned =>
        LET log == lastCall.log
        IN  /\ \A j \in Gets(log) \ OkGets(log) :
                 j = Len(log) \/ log[j + 1].call = "requests.get"
            /\ \A j \in OkGets(log) :
                 /\ j < Len(log)
                 /\ IF j = Min(OkGets(log))
                    THEN j + 1 \in Pauses(log)
                    ELSE /\ log[j + 1].call = "_wait_for_page_load"
                         /\ log[j + 1].arg = lastCall.arg.wait_time
            /\ Cardinality(Pauses(log)) <= 1
            /\ \A w \in IdxOf(log, "_wait_for_page_load") :
                 /\ w - 1 \in OkGets(log)
                 /\ w - 1 # Min(OkGets(log))

\* C15 witness: the first navigation raises, the second is followed by the
\* pause and the third by the Page-Load Waiter.
C15_Witness ==
    /\ Returned
    /\ Cardinality(Gets(lastCall.log)) = 3
    /\ Cardinality(OkGets(lastCall.log)) = 2
    /\ Min(Gets(lastCall.log)) \notin OkGets(lastCall.log)
    /\ IdxOf(lastCall.log, "_wait_for_page_load") # {}

\* C16: when the navigation raises for a DOI, its record has status
\* navigation_error and the text of the exception as error, the PDF control
\* is neither looked up nor clicked, and actions is empty, also when the
\* publisher is "ACS".
C16_NavigationErrorNoAction ==
    (AfterIteration /\ Failed(LastSegment(frame.log), "driver.get")) =>
        /\ LastRecord.status = "navigation_error"
        /\ "error" \in DOMAIN LastRecord
        /\ LastRecord.error = WebDriverErr.msg
        /\ IdxOf(LastSegment(frame.log), "find_element") = {}
        /\ IdxOf(LastSegment(frame.log), "click") = {}
        /\ LastRecord.actions = <<>>

\* C16 witness: the navigation raises for a DOI of publisher "ACS".
C16_Witness ==
    /\ AfterIteration
    /\ Failed(LastSegment(frame.log), "driver.get")
    /\ LastRecord.publisher = "ACS"

\* C17: for a DOI that is resolved and whose proxy function does not raise,
\* the record has a proxied_url, fixed by the selector: convert_to_hku_proxy
\* of the resolved URL when the selector is unset or "hku", the resolved URL
\* itself when it is "none", f of the resolved URL when it is a callable f,
\* and convert_to_hku_proxy of the resolved URL for any other value; the
\* session is navigated once for that DOI, to exactly that URL.
C17_SelectorFixesProxiedUrl ==
    (AfterIteration /\ ~LookupFailed(LastSegment(frame.log)[1])
        /\ ~Failed(LastSegment(frame.log), "proxy")) =>
        LET seg == LastSegment(frame.log)
            u   == LastRecord.url
            sel == frame.proxy
        IN  /\ "proxied_url" \in DOMAIN LastRecord
            /\ (sel = NoneSel \/ sel = StrSel("hku")) =>
                   LastRecord.proxied_url = convert_to_hku_proxy(u)
            /\ sel = StrSel("none") => LastRecord.proxied_url = u
            /\ sel.kind = "callable" =>
                   LastRecord.proxied_url = ApplyCallable(sel.val, u)
            /\ (sel.kind = "str" /\ sel.val \notin {"hku", "none"}) =>
                   LastRecord.proxied_url = convert_to_hku_proxy(u)
            /\ Cardinality(Gets(seg)) = 1
            /\ \A j \in Gets(seg) : seg[j].arg = LastRecord.proxied_url

\* C17 witness: a selector that is neither "hku" nor "none" nor a callable,
\* and a DOI navigated to the rewritten URL.
C17_Witness ==
    /\ AfterIteration
    /\ frame.proxy = StrSel("ezproxy")
    /\ "proxied_url" \in DOMAIN LastRecord
    /\ LastRecord.proxied_url # LastRecord.url
    /\ Gets(LastSegment(frame.log)) # {}

----------------------------------------------------------------------------
(* Claims, RewriterSpec *)

\* The hostname of a network location, as urllib.parse reports it: what
\* follows the last "@", up to the first ":"
Hostname(netloc) ==
    SplitAt(From(netloc, RFind(netloc, {"@"}) + 1), ":")[1]

Rewritten == pc = "returned" /\ lastCall.op = "convert_to_hku_proxy"

\* C12 as stated: for every URL, with hostname h, convert_to_hku_proxy
\* returns a URL whose hostname is h with every "." replaced by "-", followed
\* by ".eproxy.lib.hku.hk", and whose scheme, path, query and fragment are
\* those of the input, also when the network location carries a port or
\* user-info and when the query or the fragment is present but empty.
C12_HostnameRewritten ==
    Rewritten =>
        LET in  == urlparse(lastCall.arg)
            out == urlparse(lastCall.ret)
        IN  /\ Hostname(out.netloc) =
                   Replace(Hostname(in.netloc), ".", "-") \o HKU_SUFFIX
            /\ out.scheme = in.scheme
            /\ out.path = in.path
            /\ out.query = in.query
            /\ out.fragment = in.fragment

----------------------------------------------------------------------------
(* Claims, ResolverSpec *)

Looked == pc = "returned" /\ lastCall.op = "doi_to_url"

ErrorMarker == <<"Error", " ", "resolving", " ", "DOI", " ">>

\* C13 as stated: doi_to_url returns a text starting with
\* "Error resolving DOI " and the publisher "Unknown" exactly when the lookup
\* ends in a transport failure or in an HTTP error without response; in every
\* other case, an HTTP error with a response included, it returns the final
\* URL of the response and the publisher that the table of nine hosts gives
\* for the hostname of that URL, "Unknown" when the hostname is not listed.
C13_MarkerOrPublisherOfHostname ==
    Looked =>
        LET net == lastCall.arg.net
            h   == Hostname(urlparse(net.url).netloc)
        IN  IF net.kind \in {"transport", "http_error_none"}
            THEN /\ Upto(lastCall.ret[1], Len(ErrorMarker)) = ErrorMarker
                 /\ lastCall.ret[2] = "Unknown"
            ELSE /\ Upto(lastCall.ret[1], Len(ErrorMarker)) # ErrorMarker
                 /\ lastCall.ret[1] = net.url
                 /\ lastCall.ret[2] = IF h \in DOMAIN publisher_map
                                      THEN publisher_map[h] ELSE "Unknown"

----------------------------------------------------------------------------
(* Claims, WaiterFairSpec *)

Waited == pc = "returned" /\ lastCall.op = "_wait_for_page_load"

\* What holds of the Page-Load Waiter at every moment
WaiterVerdict ==
    /\ pc = "_wait_for_page_load" => ~Raises(frame.raised)
    /\ Waited =>
         LET polls == lastCall.log
         IN  /\ ~Raises(lastCall.raised)
             /\ lastCall.ret \in BOOLEAN
             /\ \A j \in 1..Len(polls) : polls[j].at < lastCall.arg.end
             /\ lastCall.ret <=>
                    \E j \in 1..Len(polls) : polls[j].out = "complete"
             /\ ~lastCall.ret => lastCall.arg.now >= lastCall.arg.end
             /\ \A j \in 1..Len(polls) :
                    polls[j].out # "complete" =>
                        LET next == polls[j].at + polls[j].took + POLL_INTERVAL
                        IN  IF next < lastCall.arg.end
                            THEN j < Len(polls) /\ polls[j + 1].at = next
                            ELSE j = Len(polls)

\* C19: _wait_for_page_load always returns, and no exception of a poll leaves
\* it; it returns true exactly when some poll, made before the timeout had
\* elapsed, reported "complete", and false otherwise, once the timeout has
\* elapsed; after a poll that raised or reported another state the next poll
\* is made one interval later, as long as the timeout has not elapsed.
C19_WaiterTerminatesWithVerdict == <>Waited /\ []WaiterVerdict

\* C19 witness: the first poll raises, the second reports "loading", the
\* third "complete", and true is returned.
C19_Witness ==
    /\ Waited
    /\ lastCall.ret = TRUE
    /\ Len(lastCall.log) = 3
    /\ lastCall.log[1].out = "raise"
    /\ lastCall.log[2].out = "loading"

----------------------------------------------------------------------------
(* Claims, Spec *)

RanSync == pc = "facade" /\ lastCall.op = "start_download_sync"

\* C5 as stated: with proxy style "none" configured on the Facade, after a
\* synchronous run every record that reached navigation has proxied_url equal
\* to its resolved url, and the session was navigated to resolved URLs only.
C5_ConfiguredProxyApplied ==
    (RanSync /\ lastCall.arg.proxy_method = StrSel("none")) =>
        /\ \A d \in DOMAIN lastCall.ret :
             "proxied_url" \in DOMAIN lastCall.ret[d] =>
                 lastCall.ret[d].proxied_url = lastCall.ret[d].url
        /\ \A j \in Gets(lastCall.log) :
             \E d \in DOMAIN lastCall.ret : lastCall.log[j].arg = lastCall.ret[d].url

\* C6: close never raises, whether quit() returns or raises, however often it
\* is called.
C6_CloseNeverRaises ==
    lastCall.op = "close" => ~Raises(lastCall.raised)

\* C6 witness: close called twice in a row on one session, the second
\* teardown raising.
C6_Witness ==
    /\ lastCall.op = "close"
    /\ Raises(lastCall.arg)
    /\ sessions[_driver].quits = 2

\* C7 as stated: at most one session is unreleased at any time, and once a
\* close has torn the session down every session the Facade created has been
\* released exactly once.
C7_OneSessionReleasedOnce ==
    /\ Cardinality({i \in 1..Len(sessions) : Live(sessions[i])}) <= 1
    /\ (lastCall.op = "close" /\ ~Raises(lastCall.arg)) =>
         \A i \in 1..Len(sessions) : sessions[i].released = 1

\* C18 as stated: once close has released the session, the Facade has no
\* live session again, whatever is called afterwards (setup included), and a
\* synchronous run started afterwards makes no call on the released session:
\* no navigation, no element lookup, no click.
C18_ClosedIsTerminal ==
    /\ (\E i \in DOMAIN sessions : sessions[i].released > 0) =>
           ~Live(sessions[_driver])
    /\ (RanSync /\ ~Live(sessions[_driver])) =>
           /\ Gets(lastCall.log) = {}
           /\ IdxOf(lastCall.log, "find_element") = {}
           /\ IdxOf(lastCall.log, "click") = {}

\* C8: when start_download_sync has returned the queue is empty, and the run
\* looked up exactly the DOIs given to add_dois since the previous run, in
\* that order (a string counts as one DOI, a list as its elements); a run
\* with nothing enqueued makes no call and returns no record.
C8_RunDrainsQueueInOrder ==
    RanSync =>
        /\ _queue = <<>>
        /\ ~Raises(lastCall.raised)
        /\ LookupDois(lastCall.log) = lastCall.arg.added
        /\ DOMAIN lastCall.ret = Range(lastCall.arg.added)
        /\ lastCall.arg.added = <<>> => (lastCall.log = <<>> /\ lastCall.ret = <<>>)

\* C8 witness: two different DOIs enqueued, both navigated by the run, in
\* enqueue order.
C8_Witness ==
    /\ RanSync
    /\ lastCall.arg.added = <<D2, D1>>
    /\ Cardinality(OkGets(lastCall.log)) = 2

\* C9: a call of start_download_async ends with NotImplementedError and
\* changes nothing: queue, proxy style, owned session and sessions are as
\* before, no process_dois activation exists, no call was made.
C9_AsyncOnlyRaises ==
    [][lastCall'.op = "start_download_async" =>
          /\ lastCall'.raised = NotImplementedError
          /\ lastCall'.log = <<>>
          /\ UNCHANGED <<_queue, proxy_method, _driver, sessions, added, frame, pc,
                 history>>]_vars

\* C9 witness: start_download_async called with DOIs queued and the session
\* already released.
C9_Witness ==
    /\ lastCall.op = "start_download_async"
    /\ lastCall.raised = NotImplementedError
    /\ _queue # <<>>
    /\ ~Live(sessions[_driver])

\* C20: the first-visit flag belongs to one run: every synchronous run of a
\* Facade makes the 20-second pause again at its first successful
\* navigation, so over the lifetime of the Facade the number of pauses made
\* equals the number of runs in which some navigation succeeded.
C20_OnePausePerNavigatingRun ==
    /\ history.pauses = history.nav_runs
    /\ RanSync =>
         Cardinality(Pauses(lastCall.log)) =
             IF OkGets(lastCall.log) = {} THEN 0 ELSE 1

\* C20 witness: the second run of a Facade that navigates, with its pause.
C20_Witness ==
    /\ RanSync
    /\ history.nav_runs = 2
    /\ history.pauses = 2
    /\ Pauses(lastCall.log) # {}

=============================================================================
